---- MODULE Spec2Model ----
(***************************************************************************)
(* cargo-ros2ws: the manifest mutation engine (src/src/manifest.rs) and    *)
(* the locked load-mutate-save cycle of the command line (src/src/cli.rs). *)
(*                                                                         *)
(* A path is the sequence of its parts, <<"/", "test1">> for "/test1" and  *)
(* <<".", "/", "test">> for "./test"; the part BadBytes stands for bytes   *)
(* that are no UTF-8 text.  A toml_edit item is a record with a kind; a    *)
(* table is the ordered sequence of its entries [key, item], as the        *)
(* library keeps them in insertion order with unique keys.                 *)
(***************************************************************************)
EXTENDS Integers, Sequences, FiniteSets, TLC

\* ------------------------------------------------------------------------
\* manifest.rs: keys
WORKSPACE_KEY == "workspace"
MEMBERS_KEY == "members"
PATCH_KEY == "patch"
CRATES_IO_KEY == "crates-io"

\* ------------------------------------------------------------------------
\* Paths
BadBytes == "\\xFF"

Test1 == <<"/", "test1">>
Test2 == <<"/", "test2", "/", "test2">>
RelTest == <<"test">>
DotTest == <<".", "/", "test">>
DotDotTest == <<"..", "/", "test">>
NonUtf8 == <<"/", BadBytes>>

ManifestFile == <<"/", "Cargo.toml">>
RelManifest == <<"Cargo.toml">>
DirPath == <<"/", "ws">>
MissingPath == <<"/", "nodir", "/", "Cargo.toml">>

\* Path::is_absolute on Unix: the path has a root.
is_absolute(path) == Len(path) > 0 /\ path[1] = "/"

\* Path::to_str: Some exactly when the bytes are UTF-8.
is_utf8(path) == \A i \in 1..Len(path) : path[i] # BadBytes

\* A relative path names a file under the working directory, here "/".
Resolve(path) == IF is_absolute(path) THEN path ELSE <<"/">> \o path

\* ------------------------------------------------------------------------
\* Results (anyhow::Result): Ok, an error, or a panic of an unwrap
Ok == [kind |-> "Ok"]
ValidationError(msg) == [kind |-> "ValidationError", msg |-> msg]
EncodingError == [kind |-> "EncodingError"]
IOError(msg) == [kind |-> "IOError", msg |-> msg]
ParseError == [kind |-> "ParseError"]
InvalidManifestFile(key, expected) ==
    [kind |-> "InvalidManifestFile", key |-> key, expected |-> expected]
Panic == [kind |-> "Panic"]

\* ------------------------------------------------------------------------
\* toml_edit items
StrV(s) == [kind |-> "string", val |-> s]
IntV == [kind |-> "integer", val |-> <<"1">>]
ArrV(elems) == [kind |-> "array", val |-> elems]
InlV(entries) == [kind |-> "inline_table", val |-> entries]
TblV(entries, implicit) == [kind |-> "table", val |-> entries, implicit |-> implicit]
Entry(k, item) == [key |-> k, item |-> item]

\* toml_edit::table(): an empty, explicit table
table == TblV(<<>>, FALSE)

is_table(item) == item.kind = "table"
is_array(item) == item.kind = "array"

\* Position of key k among the entries t, 0 when absent.
RECURSIVE IndexFrom(_, _, _)
IndexFrom(t, k, i) ==
    IF i > Len(t) THEN 0
    ELSE IF t[i].key = k THEN i
    ELSE IndexFrom(t, k, i + 1)

IndexOf(t, k) == IndexFrom(t, k, 1)
Has(t, k) == IndexOf(t, k) # 0
Get(t, k) == t[IndexOf(t, k)].item

\* t[k].or_insert(dflt): the entry is created at the end when absent.
or_insert(t, k, dflt) ==
    IF Has(t, k) THEN t ELSE Append(t, Entry(k, dflt))

\* A slip: the assignment always adds an entry.
AssignAppends(t, k, item) == Append(t, Entry(k, item))

\* t[k] = item: overwrites in place, or inserts at the end.
Assign(t, k, item) ==
    IF Has(t, k) THEN [t EXCEPT ![IndexOf(t, k)].item = item]
    ELSE Append(t, Entry(k, item))

\* The entries t with the item at key k (present) replaced.
SetItem(t, k, item) == [t EXCEPT ![IndexOf(t, k)].item = item]

\* Document::new()
EmptyDoc == <<>>

\* The element of a set of one element: the value of an expression, worked
\* out once.
Only(S) == CHOOSE x \in S : TRUE

\* ------------------------------------------------------------------------
\* Section accessors.  Each returns [res, data]: the result and the document
\* as the call leaves it (a lazily created section stays on an error).
WorkspaceMembersKey == "workspace.members"
PatchCratesIoKey == "patch.crates-io"

\* A slip: insert for or_insert, the workspace is overwritten.
get_workspace_section_insert(data) ==
    [res |-> Ok, data |-> Assign(data, WORKSPACE_KEY, table)]

get_workspace_section(data) ==
    LET d1 == or_insert(data, WORKSPACE_KEY, table)
    IN  IF ~is_table(Get(d1, WORKSPACE_KEY))
        THEN [res |-> InvalidManifestFile(WORKSPACE_KEY, "table"), data |-> d1]
        ELSE [res |-> Ok, data |-> d1]

workspace_members_of(r) ==
    IF r.res.kind # "Ok" THEN r
    ELSE LET workspace == Get(r.data, WORKSPACE_KEY)
             entries == or_insert(workspace.val, MEMBERS_KEY, ArrV(<<>>))
             d2 == SetItem(r.data, WORKSPACE_KEY, [workspace EXCEPT !.val = entries])
         IN  IF ~is_array(Get(entries, MEMBERS_KEY))
             THEN [res |-> InvalidManifestFile(WorkspaceMembersKey, "array"),
                   data |-> d2]
             ELSE [res |-> Ok, data |-> d2]

get_workspace_members_section(data) ==
    Only({workspace_members_of(r) : r \in {get_workspace_section(data)}})

get_patch_section(data) ==
    LET d1 == or_insert(data, PATCH_KEY, table)
        patch == Get(d1, PATCH_KEY)
    IN  IF ~is_table(patch)
        THEN [res |-> InvalidManifestFile(PATCH_KEY, "table"), data |-> d1]
        ELSE [res |-> Ok,
              data |-> SetItem(d1, PATCH_KEY, [patch EXCEPT !.implicit = TRUE])]

patch_crates_io_of(r) ==
    IF r.res.kind # "Ok" THEN r
    ELSE LET patch == Get(r.data, PATCH_KEY)
             entries == or_insert(patch.val, CRATES_IO_KEY, table)
             d2 == SetItem(r.data, PATCH_KEY, [patch EXCEPT !.val = entries])
         IN  IF ~is_table(Get(entries, CRATES_IO_KEY))
             THEN [res |-> InvalidManifestFile(PatchCratesIoKey, "table"),
                   data |-> d2]
             ELSE [res |-> Ok, data |-> d2]

get_patch_crates_io_section(data) ==
    Only({patch_crates_io_of(r) : r \in {get_patch_section(data)}})

\* ------------------------------------------------------------------------
\* Validation

\* A slip: the test of the path is left out.
ensure_abs_path_unchecked(path) == Ok

ensure_abs_path(path) ==
    IF is_absolute(path) THEN Ok ELSE ValidationError("not absolute path")

\* ------------------------------------------------------------------------
\* Mutation operations

\* members.iter().all(|v| v.as_str().unwrap() != path), left to right:
\* "all" when no element equals path, "found" at the first equal element,
\* "panic" when an element that is no string is met first.
\* A slip: the scan never reports a match.
scan_members_no_match(elems, path, i) ==
    IF \E j \in i..Len(elems) : elems[j].kind # "string" THEN "panic" ELSE "all"

\* A slip: only the last element is compared.
scan_members_last_only(elems, path, i) ==
    IF \E j \in i..Len(elems) : elems[j].kind # "string" THEN "panic"
    ELSE IF Len(elems) >= i /\ elems[Len(elems)].val = path THEN "found"
    ELSE "all"

RECURSIVE scan_members(_, _, _)
scan_members(elems, path, i) ==
    IF i > Len(elems) THEN "all"
    ELSE IF elems[i].kind # "string" THEN "panic"
    ELSE IF elems[i].val = path THEN "found"
    ELSE scan_members(elems, path, i + 1)

\* A slip: the new element goes to the front.
push_front(elems, v) == <<v>> \o elems

\* Array::push
push(elems, v) == Append(elems, v)

\* add_member from the members section on
add_member_to(r, path) ==
    IF r.res.kind # "Ok" THEN r
    ELSE LET workspace == Get(r.data, WORKSPACE_KEY)
             members == Get(workspace.val, MEMBERS_KEY)
             found == scan_members(members.val, path, 1)
             pushed == SetItem(workspace.val, MEMBERS_KEY,
                               ArrV(push(members.val, StrV(path))))
         IN  IF found = "panic" THEN [res |-> Panic, data |-> r.data]
             ELSE IF found = "all"
             THEN [res |-> Ok,
                   data |-> SetItem(r.data, WORKSPACE_KEY,
                                    [workspace EXCEPT !.val = pushed])]
             ELSE [res |-> Ok, data |-> r.data]

\* A slip: the sections are fetched before the path is validated.
add_member_sections_first(data, path) ==
    IF ensure_abs_path(path).kind # "Ok"
    THEN [res |-> ensure_abs_path(path),
          data |-> get_workspace_members_section(data).data]
    ELSE IF ~is_utf8(path)
    THEN [res |-> EncodingError, data |-> get_workspace_members_section(data).data]
    ELSE Only({add_member_to(r, path) : r \in {get_workspace_members_section(data)}})

add_member(data, path) ==
    IF ensure_abs_path(path).kind # "Ok"
    THEN [res |-> ensure_abs_path(path), data |-> data]
    ELSE IF ~is_utf8(path)
    THEN [res |-> EncodingError, data |-> data]
    ELSE Only({add_member_to(r, path) : r \in {get_workspace_members_section(data)}})

\* add_patch from the crates-io section on
add_patch_to(r, crates_name, path) ==
    IF r.res.kind # "Ok" THEN r
    ELSE LET patch == Get(r.data, PATCH_KEY)
             crates_io == Get(patch.val, CRATES_IO_KEY)
             inline == or_insert(<<>>, "path", StrV(path))
             assigned == Assign(crates_io.val, crates_name, InlV(inline))
             entries == SetItem(patch.val, CRATES_IO_KEY,
                                [crates_io EXCEPT !.val = assigned])
         IN  [res |-> Ok,
              data |-> SetItem(r.data, PATCH_KEY, [patch EXCEPT !.val = entries])]

add_patch(data, crates_name, path) ==
    IF crates_name = ""
    THEN [res |-> ValidationError("crate name should not be empty"), data |-> data]
    ELSE IF ensure_abs_path(path).kind # "Ok"
    THEN [res |-> ensure_abs_path(path), data |-> data]
    ELSE IF ~is_utf8(path)
    THEN [res |-> EncodingError, data |-> data]
    ELSE Only({add_patch_to(r, crates_name, path) :
                  r \in {get_patch_crates_io_section(data)}})

\* ------------------------------------------------------------------------
\* The file system: path -> node.  A file holds text.  The text of a
\* document is the tree its parse gives; other text does not parse.
NoNode == [type |-> "none"]
DirNode == [type |-> "dir"]
FileNode(text) == [type |-> "file", text |-> text]
Toml(doc) == [toml |-> TRUE, doc |-> doc]

\* Table::values_len: the entries of a table that are values, not tables.
values_len(entries) ==
    Cardinality({i \in 1..Len(entries) : ~is_table(entries[i].item)})

\* An item as it is printed: the header of a table is left out when the
\* table is implicit and holds no value of its own, and a table whose
\* header is printed is parsed as an explicit one.
RECURSIVE printed(_)
printed(item) ==
    IF ~is_table(item) THEN item
    ELSE TblV([i \in 1..Len(item.val) |->
                  Entry(item.val[i].key, printed(item.val[i].item))],
              item.implicit /\ values_len(item.val) = 0)

\* self.data.to_string()
to_string(data) ==
    [i \in 1..Len(data) |-> Entry(data[i].key, printed(data[i].item))]
Garbage == [toml |-> FALSE, doc |-> <<>>]

Node(fs, path) == IF path \in DOMAIN fs THEN fs[path] ELSE NoNode

\* Path::is_dir
is_dir(fs, path) == Node(fs, Resolve(path)).type = "dir"

ensure_is_file(fs, path) ==
    IF ~is_dir(fs, path) THEN Ok ELSE ValidationError("not file")

\* The outcomes of the operating system an I/O call can meet.
ReadOutcomes == {"ok", "fail"}
WriteOutcomes == {"ok", "fail", "truncated"}

\* Manifest::read_from: [res, data]
read_from(fs, src, io) ==
    IF ensure_abs_path(src).kind # "Ok"
    THEN [res |-> ensure_abs_path(src), data |-> EmptyDoc]
    ELSE IF ensure_is_file(fs, src).kind # "Ok"
    THEN [res |-> ensure_is_file(fs, src), data |-> EmptyDoc]
    ELSE IF Node(fs, src).type # "file" \/ io # "ok"
    THEN [res |-> IOError("failed to read file"), data |-> EmptyDoc]
    ELSE IF ~Node(fs, src).text.toml
    THEN [res |-> ParseError, data |-> EmptyDoc]
    ELSE [res |-> Ok, data |-> Node(fs, src).text.doc]

\* Manifest::write_to: [res, fs].  fs::write creates or truncates the file
\* and then writes: it fails when the file cannot be created ("fail"), or
\* after the truncation when the bytes cannot be written ("truncated").
write_to(fs, data, dst, io) ==
    IF ensure_abs_path(dst).kind # "Ok"
    THEN [res |-> ensure_abs_path(dst), fs |-> fs]
    ELSE IF ensure_is_file(fs, dst).kind # "Ok"
    THEN [res |-> ensure_is_file(fs, dst), fs |-> fs]
    ELSE IF dst \notin DOMAIN fs \/ io = "fail"
    THEN [res |-> IOError("failed to write"), fs |-> fs]
    ELSE IF io = "truncated"
    THEN [res |-> IOError("failed to write"),
          fs |-> [fs EXCEPT ![dst] = FileNode(Toml(EmptyDoc))]]
    ELSE [res |-> Ok, fs |-> [fs EXCEPT ![dst] = FileNode(Toml(to_string(data)))]]

\* ------------------------------------------------------------------------
\* Manifest files the runs start from
HogePath == <<"/", "hoge", "/", "hoge">>
PatchOf(path) == InlV(<<Entry("path", StrV(path))>>)
Members(elems) == Entry(MEMBERS_KEY, ArrV(elems))
Package == Entry("package", TblV(<<Entry("name", StrV(<<"ws">>))>>, FALSE))

\* a member listed twice; a patch record with a second field
DocDuplicate ==
    << Package,
       Entry(WORKSPACE_KEY,
             TblV(<<Entry("resolver", StrV(<<"2">>)),
                    Members(<<StrV(Test2), StrV(Test1), StrV(Test2)>>)>>, FALSE)),
       Entry(PATCH_KEY,
             TblV(<<Entry("other-registry", TblV(<<>>, FALSE)),
                    Entry(CRATES_IO_KEY,
                          TblV(<<Entry("fuga", PatchOf(Test1)),
                                 Entry("hoge", InlV(<<Entry("version", StrV(<<"1">>)),
                                                      Entry("path", StrV(HogePath))>>))>>,
                               FALSE))>>, FALSE)) >>

\* workspace and patch are no tables
DocNoTables == << Entry(WORKSPACE_KEY, IntV), Entry(PATCH_KEY, IntV) >>

\* members is no array, crates-io is no table
DocNoSections ==
    << Entry(PATCH_KEY, TblV(<<Entry(CRATES_IO_KEY, IntV)>>, FALSE)),
       Entry(WORKSPACE_KEY, TblV(<<Entry(MEMBERS_KEY, StrV(Test1))>>, FALSE)) >>

\* members holds a value that is no string, after a string
DocMixed ==
    << Entry(WORKSPACE_KEY, TblV(<<Members(<<StrV(Test1), IntV>>)>>, FALSE)) >>

InitDocs == {EmptyDoc, DocDuplicate, DocNoTables, DocNoSections, DocMixed}
InitTexts == {Toml(d) : d \in InitDocs} \cup {Garbage}

\* The file system with the manifest holding text.
FsWith(text) ==
    (ManifestFile :> FileNode(text)) @@ (DirPath :> DirNode)

\* ------------------------------------------------------------------------
\* Inputs
MemberPaths == {Test1, Test2, RelTest, DotTest, DotDotTest, NonUtf8}
CrateNames == {"", "hoge", "fuga"}
PatchInputs == {<<"hoge", Test1>>, <<"hoge", Test2>>, <<"fuga", Test2>>,
                <<"", Test1>>, <<"hoge", RelTest>>, <<"fuga", NonUtf8>>}
FilePaths == {ManifestFile, RelManifest, DirPath, MissingPath}

\* ------------------------------------------------------------------------
\* cli.rs: the invocations of cargo-ros2ws that run concurrently
Procs == {1, 2}

\* The largest reading of the system clock, in seconds.
MaxTime == 2

AddMemberCmd(member) == [op |-> "add_member", crate |-> "", path |-> member]
AddPatchCmd(crate_name, path) == [op |-> "add_patch", crate |-> crate_name, path |-> path]

\* CommonArgs and the subcommand
Args(manifest_path, with_lock, wait_nsecs, cmd) ==
    [manifest_path |-> manifest_path, with_lock |-> with_lock,
     wait_nsecs |-> wait_nsecs, cmd |-> cmd]

Invocations ==
    { Args(ManifestFile, TRUE, 0, AddMemberCmd(Test1)),
      Args(ManifestFile, TRUE, 1, AddMemberCmd(Test2)),
      Args(ManifestFile, FALSE, 0, AddPatchCmd("hoge", Test1)),
      Args(RelManifest, TRUE, 0, AddMemberCmd(Test1)),
      Args(ManifestFile, TRUE, 1, AddPatchCmd("", Test1)),
      Args(ManifestFile, TRUE, 0, AddPatchCmd("fuga", Test2)) }

CliTexts == {Toml(EmptyDoc), Toml(DocNoTables), Toml(DocNoSections), Toml(DocMixed), Garbage}

LockTimeout(path) == [kind |-> "LockTimeout", path |-> path]
SystemTimeError == [kind |-> "SystemTimeError"]

\* ------------------------------------------------------------------------
\* State
VARIABLES
    data,       \* Manifest.data of the Manifest under test
    fs,         \* the file system
    last,       \* the last call on the Manifest: [op, path, crate, res, again],
                \* again: the call before it was the same call
    patched,    \* crate name -> the path of the last successful add_patch on data
    args,       \* invocation -> its command line
    pc,         \* invocation -> where it is in execute
    timer,      \* invocation -> SystemTime::now() at the start of the lock loop
    manifest,   \* invocation -> the document of its Manifest
    result,     \* invocation -> [res, at]: what execute returned and from where
    holders,    \* the invocations whose open file holds the exclusive lock
    now         \* the system clock, in seconds

apiVars == <<data, last, patched>>
cliVars == <<args, pc, timer, manifest, result, holders, now>>
vars == <<data, fs, last, patched, args, pc, timer, manifest, result, holders, now>>

NoPath == <<>>
NoCall == [op |-> "init", path |-> NoPath, crate |-> "", res |-> Ok, again |-> FALSE]
Call(op, path, crate, res) ==
    [op |-> op, path |-> path, crate |-> crate, res |-> res,
     again |-> (last.op = op /\ last.path = path /\ last.crate = crate)]
NoPatches == [c \in CrateNames |-> NoPath]

Running == [res |-> Ok, at |-> "running"]
NoInvocation == Args(ManifestFile, FALSE, 0, AddMemberCmd(Test1))

\* No invocation runs.
CliIdle ==
    /\ args = [p \in Procs |-> NoInvocation]
    /\ pc = [p \in Procs |-> "done"]
    /\ timer = [p \in Procs |-> 0]
    /\ manifest = [p \in Procs |-> EmptyDoc]
    /\ result = [p \in Procs |-> Running]
    /\ holders = {}
    /\ now = 0

\* Manifest::init(), on a file system whose manifest holds any of the texts
Init ==
    /\ data = EmptyDoc
    /\ \E text \in InitTexts : fs = FsWith(text)
    /\ last = NoCall
    /\ patched = NoPatches
    /\ CliIdle

\* A panic unwinds the caller: no call follows it.
Alive == last.res.kind # "Panic"

ReadFrom(src, io) ==
    /\ Alive
    /\ LET r == read_from(fs, src, io)
       IN  /\ last' = Call("read_from", src, "", r.res)
           /\ IF r.res.kind = "Ok"
              THEN data' = r.data /\ patched' = NoPatches
              ELSE UNCHANGED <<data, patched>>
    /\ UNCHANGED fs
    /\ UNCHANGED cliVars

WriteTo(dst, io) ==
    /\ Alive
    /\ LET r == write_to(fs, data, dst, io)
       IN  /\ last' = Call("write_to", dst, "", r.res)
           /\ fs' = r.fs
    /\ UNCHANGED <<data, patched>>
    /\ UNCHANGED cliVars

AddMember(path) ==
    /\ Alive
    /\ LET r == add_member(data, path)
       IN  /\ last' = Call("add_member", path, "", r.res)
           /\ data' = r.data
    /\ UNCHANGED <<fs, patched>>
    /\ UNCHANGED cliVars

AddPatch(crates_name, path) ==
    /\ Alive
    /\ LET r == add_patch(data, crates_name, path)
       IN  /\ last' = Call("add_patch", path, crates_name, r.res)
           /\ data' = r.data
           /\ patched' = IF r.res.kind = "Ok"
                         THEN [patched EXCEPT ![crates_name] = path]
                         ELSE patched
    /\ UNCHANGED fs
    /\ UNCHANGED cliVars

\* The outcomes an I/O call on path can meet: only an existing file can
\* fail in more than one way.
ReadsOf(path) == IF path = ManifestFile THEN ReadOutcomes ELSE {"ok"}
WritesOf(path) == IF path = ManifestFile THEN WriteOutcomes ELSE {"ok"}

Next ==
    \/ \E src \in FilePaths : \E io \in ReadsOf(src) : ReadFrom(src, io)
    \/ \E dst \in FilePaths : \E io \in WritesOf(dst) : WriteTo(dst, io)
    \/ \E path \in MemberPaths : AddMember(path)
    \/ \E in \in PatchInputs : AddPatch(in[1], in[2])

\* The calls of the Manifest API, in any order, on one Manifest.
Spec == Init /\ [][Next]_vars

\* ------------------------------------------------------------------------
\* cli.rs: one invocation, FileLock::from_cli_args and execute

\* FileExt::try_lock_exclusive on the open manifest: [ok, holders].  The
\* lock is granted when no other open file holds it.
try_lock_exclusive(held, p) ==
    IF held \subseteq {p}
    THEN [ok |-> TRUE, holders |-> held \cup {p}]
    ELSE [ok |-> FALSE, holders |-> held]

\* A slip: the lock is kept.
drop_keeps_lock(held, p) == held

\* impl Drop for FileLock: unlocks the file it holds, if any.
drop(held, p) == held \ {p}

\* timer.elapsed(): an error when the clock went back behind the timer.
elapsed(p) == now - timer[p]

\* A slip: the deadline is never tested.
loop_condition_no_deadline(p) ==
    IF args[p].wait_nsecs = 0 THEN "try"
    ELSE IF now < timer[p] THEN "error"
    ELSE "try"

\* A slip: 0 is taken as a deadline like any other.
loop_condition_zero_deadline(p) ==
    IF now < timer[p] THEN "error"
    ELSE IF elapsed(p) <= args[p].wait_nsecs THEN "try"
    ELSE "timeout"

\* The condition of the while loop of from_cli_args: "try" to go round,
\* "timeout" to leave the loop, "error" when elapsed() fails.
loop_condition(p) ==
    IF args[p].wait_nsecs = 0 THEN "try"
    ELSE IF now < timer[p] THEN "error"
    ELSE IF elapsed(p) <= args[p].wait_nsecs THEN "try"
    ELSE "timeout"

Return(p, res, at) == result' = [result EXCEPT ![p] = [res |-> res, at |-> at]]
Goto(p, label) == pc' = [pc EXCEPT ![p] = label]

\* from_cli_args up to the loop: no lock without --with-lock, else the
\* manifest is opened and the timer started.
\* A slip: --with-lock is not looked at, every invocation takes the lock.
FromCliArgsAlwaysLock(p) ==
    /\ pc[p] = "start"
    /\ timer' = [timer EXCEPT ![p] = now]
    /\ Goto(p, "loop")
    /\ UNCHANGED <<fs, manifest, holders, now, args, result>>
    /\ UNCHANGED apiVars

FromCliArgs(p) ==
    /\ pc[p] = "start"
    /\ IF ~args[p].with_lock
       THEN Goto(p, "read") /\ UNCHANGED <<timer, result>>
       ELSE \E io \in ReadOutcomes :
              IF io = "ok" /\ Node(fs, Resolve(args[p].manifest_path)).type # "none"
              THEN /\ timer' = [timer EXCEPT ![p] = now]
                   /\ Goto(p, "loop")
                   /\ UNCHANGED result
              ELSE /\ Return(p, IOError("failed to open"), "lock")
                   /\ Goto(p, "done")
                   /\ UNCHANGED timer
    /\ UNCHANGED <<fs, manifest, holders, now, args>>
    /\ UNCHANGED apiVars

\* The test of the while loop; leaving the loop is the lock timeout.
LoopCheck(p) ==
    /\ pc[p] = "loop"
    /\ IF loop_condition(p) = "try"
       THEN Goto(p, "try") /\ UNCHANGED result
       ELSE IF loop_condition(p) = "error"
       THEN Return(p, SystemTimeError, "lock") /\ Goto(p, "done")
       ELSE /\ Return(p, LockTimeout(args[p].manifest_path), "lock")
            /\ Goto(p, "done")
    /\ UNCHANGED <<fs, manifest, holders, now, args, timer>>
    /\ UNCHANGED apiVars

\* A slip: the result of try_lock_exclusive is not looked at.
TryLockUnchecked(p) ==
    /\ pc[p] = "try"
    /\ holders' = try_lock_exclusive(holders, p).holders
    /\ Goto(p, "read")
    /\ UNCHANGED <<fs, manifest, now, args, timer, result>>
    /\ UNCHANGED apiVars

\* The body of the loop: one try_lock_exclusive.
TryLock(p) ==
    /\ pc[p] = "try"
    /\ \E r \in {try_lock_exclusive(holders, p)} :
           /\ holders' = r.holders
           /\ IF r.ok THEN Goto(p, "read") ELSE Goto(p, "loop")
    /\ UNCHANGED <<fs, manifest, now, args, timer, result>>
    /\ UNCHANGED apiVars

\* Manifest::read_from(&args.manifest_path)?
Read(p) ==
    /\ pc[p] = "read"
    /\ \E io \in ReadOutcomes :
         \E r \in {read_from(fs, args[p].manifest_path, io)} :
             IF r.res.kind = "Ok"
             THEN /\ manifest' = [manifest EXCEPT ![p] = r.data]
                  /\ Goto(p, "mutate")
                  /\ UNCHANGED result
             ELSE /\ Return(p, r.res, "read")
                  /\ Goto(p, "drop")
                  /\ UNCHANGED manifest
    /\ UNCHANGED <<fs, holders, now, args, timer>>
    /\ UNCHANGED apiVars

\* manifest.add_member(self.member)? or manifest.add_patch(..)?
mutate(doc, cmd) ==
    IF cmd.op = "add_member" THEN add_member(doc, cmd.path)
    ELSE add_patch(doc, cmd.crate, cmd.path)

\* A slip: the ? is left out, the result of the mutation is dropped.
MutateUnchecked(p) ==
    /\ pc[p] = "mutate"
    /\ \E r \in {mutate(manifest[p], args[p].cmd)} :
           manifest' = [manifest EXCEPT ![p] = r.data]
    /\ Goto(p, "write")
    /\ UNCHANGED <<fs, holders, now, args, timer, result>>
    /\ UNCHANGED apiVars

Mutate(p) ==
    /\ pc[p] = "mutate"
    /\ \E r \in {mutate(manifest[p], args[p].cmd)} :
           /\ manifest' = [manifest EXCEPT ![p] = r.data]
           /\ IF r.res.kind = "Ok"
              THEN Goto(p, "write") /\ UNCHANGED result
              ELSE Return(p, r.res, "mutate") /\ Goto(p, "drop")
    /\ UNCHANGED <<fs, holders, now, args, timer>>
    /\ UNCHANGED apiVars

\* manifest.write_to(&args.manifest_path)?; Ok(())
Write(p) ==
    /\ pc[p] = "write"
    /\ \E io \in WriteOutcomes :
         \E r \in {write_to(fs, manifest[p], args[p].manifest_path, io)} :
             /\ fs' = r.fs
             /\ Return(p, r.res, "write")
    /\ Goto(p, "drop")
    /\ UNCHANGED <<manifest, holders, now, args, timer>>
    /\ UNCHANGED apiVars

\* The end of execute on every path: _lock goes out of scope.
Drop(p) ==
    /\ pc[p] = "drop"
    /\ holders' = drop(holders, p)
    /\ Goto(p, "done")
    /\ UNCHANGED <<fs, manifest, now, args, timer, result>>
    /\ UNCHANGED apiVars

Step(p) ==
    \/ FromCliArgs(p)
    \/ LoopCheck(p)
    \/ TryLock(p)
    \/ Read(p)
    \/ Mutate(p)
    \/ Write(p)
    \/ Drop(p)

\* The system clock advances, and may be set back.
Tick ==
    /\ now < MaxTime
    /\ now' = now + 1
    /\ UNCHANGED <<fs, args, pc, timer, manifest, result, holders>>
    /\ UNCHANGED apiVars

ClockSetBack ==
    /\ now > 0
    /\ now' = now - 1
    /\ UNCHANGED <<fs, args, pc, timer, manifest, result, holders>>
    /\ UNCHANGED apiVars

CliInit ==
    /\ data = EmptyDoc /\ last = NoCall /\ patched = NoPatches
    /\ \E text \in CliTexts : fs = FsWith(text)
    /\ args \in [Procs -> Invocations]
    /\ pc = [p \in Procs |-> "start"]
    /\ timer = [p \in Procs |-> 0]
    /\ manifest = [p \in Procs |-> EmptyDoc]
    /\ result = [p \in Procs |-> Running]
    /\ holders = {}
    /\ now = 0

CliNext ==
    \/ \E p \in Procs : Step(p)
    \/ Tick
    \/ ClockSetBack

\* Concurrent invocations on one manifest file.
CliSpec == CliInit /\ [][CliNext]_vars

\* Locked invocations on a manifest that parses.
WaitingInvocations == {a \in Invocations : a.with_lock /\ a.manifest_path = ManifestFile}

FairCliInit ==
    /\ CliInit
    /\ fs = FsWith(Toml(EmptyDoc))
    /\ args \in [Procs -> WaitingInvocations]

\* Every invocation is a running process: it takes its next step.
FairCliSpec ==
    FairCliInit /\ [][CliNext]_vars /\ \A p \in Procs : WF_vars(Step(p))

\* ------------------------------------------------------------------------
\* Readings of a document

\* The elements of workspace.members; an absent workspace table or members
\* array counts as the empty array.
MembersOf(d) ==
    IF Has(d, WORKSPACE_KEY) /\ is_table(Get(d, WORKSPACE_KEY))
       /\ Has(Get(d, WORKSPACE_KEY).val, MEMBERS_KEY)
       /\ is_array(Get(Get(d, WORKSPACE_KEY).val, MEMBERS_KEY))
    THEN Get(Get(d, WORKSPACE_KEY).val, MEMBERS_KEY).val
    ELSE <<>>

\* The entries of patch.crates-io, none when the table is absent.
CratesIoOf(d) ==
    IF Has(d, PATCH_KEY) /\ is_table(Get(d, PATCH_KEY))
       /\ Has(Get(d, PATCH_KEY).val, CRATES_IO_KEY)
       /\ is_table(Get(Get(d, PATCH_KEY).val, CRATES_IO_KEY))
    THEN Get(Get(d, PATCH_KEY).val, CRATES_IO_KEY).val
    ELSE <<>>

NoDuplicates(elems) ==
    \A i, j \in 1..Len(elems) : elems[i] = elems[j] => i = j

EntriesFor(t, k) == {i \in 1..Len(t) : t[i].key = k}

\* ------------------------------------------------------------------------
\* C1 (as stated): for an absolute path p, whatever the workspace.members
\* array holds, an add_member(p) that follows an add_member(p) succeeds and
\* changes nothing.
C1_SecondCallSucceeds ==
    [][(/\ last'.op = "add_member" /\ last'.again
        /\ is_absolute(last'.path)
        /\ get_workspace_members_section(data).res.kind = "Ok")
       => (last'.res = Ok /\ data' = data)]_vars

\* C1 (amended): an add_member(p) that follows an add_member(p) changes
\* nothing and returns what the first call returned: Ok after a success,
\* the same error after an error.
C1_Idempotent ==
    [][(last'.op = "add_member" /\ last'.again)
       => (/\ data' = data
           /\ last'.res = last.res
           /\ MembersOf(data') = MembersOf(data))]_vars

\* add_member of an absolute path has succeeded twice in a row on an array
\* with several members.
C1_Witness ==
    /\ last.op = "add_member" /\ last.again /\ last.res = Ok
    /\ last.path = Test2
    /\ Len(MembersOf(data)) >= 2

\* C2: after one or more successful add_patch(c, p) calls on a document,
\* among calls for other crates, patch.crates-io holds exactly one entry for
\* c and it is the inline record {path = p} of the last of them, with no
\* other field.
C2_Upsert ==
    \A c \in CrateNames :
        patched[c] # NoPath =>
            /\ Cardinality(EntriesFor(CratesIoOf(data), c)) = 1
            /\ Get(CratesIoOf(data), c) = InlV(<<Entry("path", StrV(patched[c]))>>)

\* Both crates of a manifest that listed fuga at /test1 and hoge with a
\* version field were patched again, hoge last and twice running.
C2_Witness ==
    /\ Has(data, PATCH_KEY) /\ is_table(Get(data, PATCH_KEY))
    /\ Has(Get(data, PATCH_KEY).val, "other-registry")
    /\ patched["fuga"] = Test2
    /\ patched["hoge"] = Test1
    /\ last.op = "add_patch" /\ last.again /\ last.crate = "hoge"

\* C3: a successful add_member(p) leaves workspace.members as it was, or as
\* it was with p appended as the last element.
C3_OrderPreserved ==
    [][(last'.op = "add_member" /\ last'.res = Ok)
       => \/ MembersOf(data') = MembersOf(data)
          \/ MembersOf(data') = Append(MembersOf(data), StrV(last'.path))]_vars

\* add_member("/test1") then add_member("/test2/test2") on the empty
\* document gave [workspace] members = ["/test1", "/test2/test2"].
C3_Witness ==
    /\ last.op = "add_member" /\ last.res = Ok /\ last.path = Test2
    /\ data = <<Entry(WORKSPACE_KEY,
                      TblV(<<Members(<<StrV(Test1), StrV(Test2)>>)>>, FALSE))>>

\* C4 (as stated): in every state of a Manifest workspace.members holds no
\* path twice.
C4_NeverDuplicates == NoDuplicates(MembersOf(data))

\* C4 (amended): workspace.members of Manifest::init() holds no path twice,
\* and no call but read_from makes an array without duplicates into one
\* with duplicates.
C4_NoDuplicateAdded ==
    /\ (last.op = "init" => NoDuplicates(MembersOf(data)))
    /\ [][(NoDuplicates(MembersOf(data)) /\ last'.op # "read_from")
          => NoDuplicates(MembersOf(data'))]_vars

\* add_member was repeated on an array of several members, none twice.
C4_Witness ==
    /\ last.op = "add_member" /\ last.again /\ last.res = Ok
    /\ last.path = Test1
    /\ Len(MembersOf(data)) >= 2
    /\ NoDuplicates(MembersOf(data))

\* C9: add_member, add_patch, read_from and write_to fail with a validation
\* error on every path that is not absolute; add_patch fails with one on an
\* empty crate name; read_from and write_to fail with one on a directory.
C9_ValidationRejection ==
    /\ (last.op \in {"add_member", "add_patch", "read_from", "write_to"}
        /\ ~is_absolute(last.path))
       => last.res.kind = "ValidationError"
    /\ (last.op = "add_patch" /\ last.crate = "")
       => last.res.kind = "ValidationError"
    /\ (last.op \in {"read_from", "write_to"}
        /\ Node(fs, Resolve(last.path)).type = "dir")
       => last.res.kind = "ValidationError"

\* add_member was refused a relative path on a document with members.
C9_Witness ==
    /\ last.op = "add_member" /\ last.path = DotDotTest
    /\ last.res.kind = "ValidationError"
    /\ Len(MembersOf(data)) >= 1


\* ------------------------------------------------------------------------
\* Readings of the invocations
FileDoc == Node(fs, ManifestFile).text.doc
Locked(p) == args[p].with_lock
InCycle(p) == pc[p] \in {"read", "mutate", "write"}
Succeeded(p) == pc[p] = "done" /\ result[p] = [res |-> Ok, at |-> "write"]

\* The document holds what the command adds.
Reflects(doc, cmd) ==
    IF cmd.op = "add_member"
    THEN \E i \in 1..Len(MembersOf(doc)) : MembersOf(doc)[i] = StrV(cmd.path)
    ELSE /\ Has(CratesIoOf(doc), cmd.crate)
         /\ Get(CratesIoOf(doc), cmd.crate) = PatchOf(cmd.path)

ValidCmd(cmd) ==
    /\ is_absolute(cmd.path) /\ is_utf8(cmd.path)
    /\ cmd.op = "add_patch" => cmd.crate # ""

\* The SchemaError the document calls for from the command, Ok when none.
SchemaErrorOf(doc, cmd) ==
    LET top == IF cmd.op = "add_member" THEN WORKSPACE_KEY ELSE PATCH_KEY
        sub == IF cmd.op = "add_member" THEN MEMBERS_KEY ELSE CRATES_IO_KEY
        kind == IF cmd.op = "add_member" THEN "array" ELSE "table"
        both == IF cmd.op = "add_member" THEN WorkspaceMembersKey ELSE PatchCratesIoKey
    IN  IF ~Has(doc, top) THEN Ok
        ELSE IF Get(doc, top).kind # "table" THEN InvalidManifestFile(top, "table")
        ELSE IF ~Has(Get(doc, top).val, sub) THEN Ok
        ELSE IF Get(Get(doc, top).val, sub).kind # kind
        THEN InvalidManifestFile(both, kind)
        ELSE Ok

\* ------------------------------------------------------------------------
\* C5: of the invocations run with --with-lock at most one holds the lock,
\* each holds it from before its read_from until after its write_to, so no
\* two are in their load-mutate-save cycles at once; and when all
\* invocations are locked and all have succeeded, the file holds what each
\* of them added.
C5_LockSerialization ==
    /\ Cardinality(holders) <= 1
    /\ \A p \in Procs :
         (Locked(p) /\ (InCycle(p) \/ pc[p] = "drop")) => p \in holders
    /\ \A p, q \in Procs :
         (p # q /\ Locked(p) /\ Locked(q)) => ~(InCycle(p) /\ InCycle(q))
    /\ (\A p \in Procs : Locked(p) /\ Succeeded(p))
       => \A p \in Procs : Reflects(FileDoc, args[p].cmd)

\* Two locked invocations, one adding a member and one a patch, both
\* succeeded.
C5_Witness ==
    /\ args[1].cmd = AddMemberCmd(Test2) /\ args[2].cmd = AddPatchCmd("fuga", Test2)
    /\ \A p \in Procs : Locked(p) /\ Succeeded(p)

\* C6: an invocation that has ended, on whatever path, holds no lock.
C6_LockReleased ==
    \A p \in Procs : pc[p] = "done" => p \notin holders

\* A locked invocation ended on a validation error of its mutation, and the
\* other invocation holds the lock after it.
C6_Witness ==
    /\ Locked(1) /\ pc[1] = "done"
    /\ result[1].at = "mutate" /\ result[1].res.kind = "ValidationError"
    /\ Locked(2) /\ timer[2] = MaxTime /\ 2 \in holders

\* C7: with --with-lock and wait_nsecs = T > 0, the loop test that finds
\* more than T seconds elapsed ends the invocation with the lock timeout
\* that names the manifest path, and a timed out invocation has not read,
\* mutated or written the manifest; a try that finds the lock held goes
\* back to the loop test.
C7_LockTimeout ==
    /\ [](\A p \in Procs :
            result[p].res.kind = "LockTimeout" =>
                /\ Locked(p) /\ args[p].wait_nsecs > 0
                /\ result[p] = [res |-> LockTimeout(args[p].manifest_path), at |-> "lock"]
                /\ pc[p] = "done" /\ p \notin holders
                /\ manifest[p] = EmptyDoc)
    /\ [][\A p \in Procs :
            (/\ pc[p] = "loop" /\ pc'[p] # "loop"
             /\ args[p].wait_nsecs > 0 /\ elapsed(p) > args[p].wait_nsecs)
            => (/\ result'[p].res = LockTimeout(args[p].manifest_path)
                /\ pc'[p] = "done"
                /\ fs' = fs)]_vars
    /\ [][\A p \in Procs :
            (result[p].res.kind # "LockTimeout" /\ result'[p].res.kind = "LockTimeout")
            => elapsed(p) > args[p].wait_nsecs]_vars
    /\ [][\A p \in Procs :
            (pc[p] = "try" /\ pc'[p] # "try" /\ ~(holders \subseteq {p}))
            => (pc'[p] = "loop" /\ holders' = holders)]_vars

\* An invocation timed out while the other one held the lock.
C7_Witness ==
    /\ result[1].res.kind = "LockTimeout"
    /\ 2 \in holders /\ InCycle(2)

\* C8: with --with-lock and wait_nsecs = 0 the acquisition never fails on
\* time; once in the loop the invocation comes to hold the lock, and it
\* comes to its end.
C8_WaitForever ==
    \A p \in Procs :
        /\ []((Locked(p) /\ args[p].wait_nsecs = 0)
              => result[p].res.kind \notin {"LockTimeout", "SystemTimeError"})
        /\ (Locked(p) /\ args[p].wait_nsecs = 0 /\ pc[p] = "loop") ~> (p \in holders)
        /\ (Locked(p) /\ args[p].wait_nsecs = 0) ~> (pc[p] = "done")

\* An invocation that waits forever holds the lock, two seconds after it
\* started, the other invocation having succeeded.
C8_Witness ==
    /\ Locked(1) /\ args[1].wait_nsecs = 0
    /\ timer[1] = 0 /\ now = MaxTime
    /\ 1 \in holders
    /\ Locked(2) /\ Succeeded(2)

\* C10 (as stated): add_member on a workspace that is no table, or members
\* that is no array, and add_patch on a patch or crates-io that is no
\* table, fail with the SchemaError of the key, and nothing is written.
C10_SchemaErrorAlways ==
    [][\A p \in Procs :
         (/\ pc[p] = "mutate" /\ pc'[p] # "mutate"
          /\ SchemaErrorOf(manifest[p], args[p].cmd) # Ok)
         => (/\ result'[p] = [res |-> SchemaErrorOf(manifest[p], args[p].cmd),
                              at |-> "mutate"]
             /\ pc'[p] = "drop"
             /\ fs' = fs)]_vars

\* C10 (amended): with an absolute UTF-8 path, and a crate name that is not
\* empty, they fail with the SchemaError of the key; with other arguments
\* they fail too, on the validation. Nothing is written either way.
C10_SchemaRejection ==
    /\ [][\A p \in Procs :
            (/\ pc[p] = "mutate" /\ pc'[p] # "mutate"
             /\ SchemaErrorOf(manifest[p], args[p].cmd) # Ok)
            => (/\ result'[p].at = "mutate"
                /\ result'[p].res = IF ValidCmd(args[p].cmd)
                                    THEN SchemaErrorOf(manifest[p], args[p].cmd)
                                    ELSE result'[p].res
                /\ result'[p].res.kind \in {"InvalidManifestFile", "ValidationError",
                                            "EncodingError"}
                /\ pc'[p] = "drop"
                /\ fs' = fs)]_vars
    /\ [](\A p \in Procs :
            result[p].res.kind = "InvalidManifestFile"
            => (result[p].at = "mutate" /\ pc[p] \in {"drop", "done"}))

\* add_member ended on members being no array, the file as it was.
C10_Witness ==
    /\ pc[1] = "done"
    /\ result[1] = [res |-> InvalidManifestFile(WorkspaceMembersKey, "array"),
                    at |-> "mutate"]
    /\ fs = FsWith(Toml(DocNoSections))

\* ------------------------------------------------------------------------
\* C11: an invocation whose lock acquisition, read_from or mutation fails
\* never calls write_to and leaves the file as it is: the failure ends
\* execute at once, write_to is reached only from a mutation that returned
\* Ok, an invocation that has failed never comes to it, and the file
\* changes only in the write_to of an invocation that has not failed.
Failed(p) == result[p].at \in {"lock", "read", "mutate"}

C11_NeverWriteOnFailure ==
    /\ [](\A p \in Procs :
            Failed(p) => (pc[p] \in {"drop", "done"} /\ result[p].res # Ok))
    /\ [][\A p \in Procs :
            (pc[p] \in {"start", "loop", "try"} /\ pc'[p] # pc[p])
            => (/\ pc'[p] \in {"loop", "try", "read", "done"}
                /\ (pc'[p] = "done") = (result'[p].at = "lock")
                /\ fs' = fs)]_vars
    /\ [][\A p \in Procs :
            (pc[p] = "read" /\ pc'[p] # "read")
            => (/\ pc'[p] \in {"mutate", "drop"}
                /\ (pc'[p] = "drop") = (result'[p].at = "read")
                /\ fs' = fs)]_vars
    /\ [][\A p \in Procs :
            (pc[p] = "mutate" /\ pc'[p] # "mutate")
            => (/\ fs' = fs
                /\ IF mutate(manifest[p], args[p].cmd).res = Ok
                   THEN pc'[p] = "write" /\ result'[p] = Running
                   ELSE /\ pc'[p] = "drop"
                        /\ result'[p] = [res |-> mutate(manifest[p], args[p].cmd).res,
                                         at |-> "mutate"])]_vars
    /\ [][\A p \in Procs :
            Failed(p) => (/\ result'[p] = result[p]
                          /\ pc'[p] \in {"drop", "done"})]_vars
    /\ [][fs' # fs
          => \E p \in Procs : /\ pc[p] = "write" /\ pc'[p] = "drop"
                               /\ ~Failed(p)
                               /\ result'[p].at = "write"]_vars

\* An add_member ended in its mutation, on a member that is no string; the
\* file holds what the other invocation wrote and the members as they were.
C11_Witness ==
    /\ pc[1] = "done" /\ result[1] = [res |-> Panic, at |-> "mutate"]
    /\ Succeeded(2)
    /\ Reflects(FileDoc, args[2].cmd)
    /\ MembersOf(FileDoc) = <<StrV(Test1), IntV>>

\* ------------------------------------------------------------------------
\* Frames of a table

\* The entries t but the one at key k.
Without(t, k) == SelectSeq(t, LAMBDA e : e.key # k)

\* u is t but for the entry at key k, which stays where it is when t has
\* it.
SameBut(t, u, k) ==
    /\ Without(u, k) = Without(t, k)
    /\ Cardinality(EntriesFor(u, k)) <= 1
    /\ Has(t, k) => (Has(u, k) /\ IndexOf(u, k) = IndexOf(t, k))

\* e is d but for workspace.members, whose elements in d come first in e.
MemberFrame(d, e) ==
    /\ SameBut(d, e, WORKSPACE_KEY)
    /\ Len(MembersOf(e)) >= Len(MembersOf(d))
    /\ SubSeq(MembersOf(e), 1, Len(MembersOf(d))) = MembersOf(d)
    /\ Has(d, WORKSPACE_KEY) =>
          /\ Get(e, WORKSPACE_KEY).kind = Get(d, WORKSPACE_KEY).kind
          /\ Get(e, WORKSPACE_KEY).implicit = Get(d, WORKSPACE_KEY).implicit
          /\ SameBut(Get(d, WORKSPACE_KEY).val, Get(e, WORKSPACE_KEY).val, MEMBERS_KEY)

\* e is d but for the entry patch.crates-io[c]; marks: the implicit marks
\* of patch and crates-io are compared too.
PatchFrame(d, e, c, marks) ==
    /\ SameBut(d, e, PATCH_KEY)
    /\ Has(d, PATCH_KEY) =>
          LET patch == Get(d, PATCH_KEY)
              patch2 == Get(e, PATCH_KEY)
          IN  /\ patch2.kind = patch.kind
              /\ marks => patch2.implicit = patch.implicit
              /\ SameBut(patch.val, patch2.val, CRATES_IO_KEY)
              /\ Has(patch.val, CRATES_IO_KEY) =>
                    LET crates_io == Get(patch.val, CRATES_IO_KEY)
                        crates_io2 == Get(patch2.val, CRATES_IO_KEY)
                    IN  /\ crates_io2.kind = crates_io.kind
                        /\ marks => crates_io2.implicit = crates_io.implicit
                        /\ SameBut(crates_io.val, crates_io2.val, c)

\* An item with the implicit marks of its tables taken off: its keys and
\* values.
RECURSIVE unmarked(_)
unmarked(item) ==
    IF ~is_table(item) THEN item
    ELSE TblV([i \in 1..Len(item.val) |->
                  Entry(item.val[i].key, unmarked(item.val[i].item))], FALSE)

KeysValues(d) == [i \in 1..Len(d) |-> Entry(d[i].key, unmarked(d[i].item))]

\* C12: a successful add_member changes nothing in the document, as it is
\* written back, but workspace.members, whose existing elements stay; a
\* successful add_patch(c, _) changes nothing in it but the entry
\* patch.crates-io[c]; and a successful write_to puts the document in the
\* file as to_string gives it.
C12_FramePreservation ==
    /\ [][(last'.op = "add_member" /\ last'.res = Ok)
          => MemberFrame(to_string(data), to_string(data'))]_vars
    /\ [][(last'.op = "add_patch" /\ last'.res = Ok)
          => PatchFrame(to_string(data), to_string(data'), last'.crate, TRUE)]_vars
    /\ [][(last'.op = "write_to" /\ last'.res = Ok)
          => fs' = [fs EXCEPT ![last'.path] = FileNode(Toml(to_string(data)))]]_vars

\* C12, of the keys and values alone: the frame holds when the implicit
\* marks of the tables are left out of the comparison.
C12_KeysValuesFrame ==
    /\ [][(last'.op = "add_member" /\ last'.res = Ok)
          => MemberFrame(data, data')]_vars
    /\ [][(last'.op = "add_patch" /\ last'.res = Ok)
          => PatchFrame(data, data', last'.crate, FALSE)]_vars

\* add_patch overwrote hoge in a manifest with a package, a workspace,
\* another registry and another crate.
C12_Witness ==
    /\ last.op = "add_patch" /\ last.res = Ok /\ last.crate = "hoge"
    /\ Has(data, "package")
    /\ Len(MembersOf(data)) = 3
    /\ Has(CratesIoOf(data), "fuga")
    /\ Get(CratesIoOf(data), "hoge") = PatchOf(Test1)

\* ------------------------------------------------------------------------
\* C13: an invocation run without --with-lock goes from its start to
\* read_from: it is never in the lock loop, never holds the lock and never
\* fails on it; its read_from and write_to can be taken whoever holds the
\* lock.
C13_LockOptIn ==
    /\ [](\A p \in Procs :
            ~Locked(p) => (/\ pc[p] \notin {"loop", "try"}
                           /\ p \notin holders
                           /\ result[p].at # "lock"
                           /\ timer[p] = 0))
    /\ [][\A p \in Procs :
            (~Locked(p) /\ pc[p] = "start" /\ pc'[p] # "start")
            => (pc'[p] = "read" /\ holders' = holders)]_vars
    /\ [](\A p \in Procs :
            (~Locked(p) /\ pc[p] = "read") => ENABLED Read(p))
    /\ [](\A p \in Procs :
            (~Locked(p) /\ pc[p] = "write") => ENABLED Write(p))

\* The lost update: a locked and an unlocked invocation have both
\* succeeded and the file holds what the locked one added, not what the
\* unlocked one added: the unlocked one read and wrote between the
\* read_from and the write_to of the locked one, which held the lock.
C13_Witness ==
    /\ Locked(1) /\ ~Locked(2)
    /\ args[1].manifest_path = args[2].manifest_path
    /\ Succeeded(1) /\ Succeeded(2)
    /\ Reflects(FileDoc, args[1].cmd)
    /\ ~Reflects(FileDoc, args[2].cmd)

\* ------------------------------------------------------------------------
\* C14: an add_member or add_patch that does not return Ok leaves the keys
\* and values of the document as they were: a validation or encoding
\* error leaves the document untouched, a SchemaError is the one the
\* document as it was calls for, from a node that was there, and at most
\* the implicit mark of an existing patch table is set; no workspace,
\* members, patch or crates-io node is created.
MarkedPatch(d) ==
    IF Has(d, PATCH_KEY) /\ is_table(Get(d, PATCH_KEY))
    THEN SetItem(d, PATCH_KEY, [Get(d, PATCH_KEY) EXCEPT !.implicit = TRUE])
    ELSE d

LastCmd(call) == [op |-> call.op, crate |-> call.crate, path |-> call.path]

C14_FailureLeavesDocument ==
    [][(last'.op \in {"add_member", "add_patch"} /\ last'.res # Ok)
       => (/\ KeysValues(data') = KeysValues(data)
           /\ data' \in {data, MarkedPatch(data)}
           /\ last'.res.kind \in {"ValidationError", "EncodingError"} => data' = data
           /\ last'.res.kind = "InvalidManifestFile"
                 => last'.res = SchemaErrorOf(data, LastCmd(last'))
           /\ \A k \in {WORKSPACE_KEY, PATCH_KEY} : Has(data', k) = Has(data, k))]_vars

\* add_patch failed on a crates-io that is no table, in a patch table that
\* was there and is now marked implicit, its keys and values as they were.
C14_Witness ==
    /\ last.op = "add_patch"
    /\ last.res = InvalidManifestFile(PatchCratesIoKey, "table")
    /\ KeysValues(data) = DocNoSections
    /\ Get(data, PATCH_KEY).implicit

====
